---- MODULE Spec2Model ----
(***************************************************************************)
(* Menu-item REST API (Next.js route handlers over a Prisma store).        *)
(*                                                                         *)
(* Spec     : the route handlers of app/api/menu-items/route.ts,           *)
(*            app/api/menu-items/[id]/route.ts and app/search/route.ts,    *)
(*            one request at a time, each handler one atomic action.       *)
(* FaultSpec: the same handlers with requests that call the store, against *)
(*            a store that may throw at any call.                          *)
(* GatewaySpec: lib/prisma.ts as the route modules import it, with the     *)
(*            development server's hot reloads.                            *)
(* DocSpec  : the "Code Complet" handlers of                               *)
(*            documentation/03-ERREUR_ROUTES_INCOMPLETES.md (validation,   *)
(*            existence check, case-insensitive uniqueness check), with    *)
(*            two requests in flight that interleave at every await of a   *)
(*            store call.                                                  *)
(*                                                                         *)
(* Text is a sequence of one-character strings.  A MenuItem row is         *)
(* [id, name, createdAt]; the table is the set of live rows.               *)
(***************************************************************************)
EXTENDS Integers, Sequences, FiniteSets, TLC

VARIABLES rows,     \* the MenuItem table: the set of live rows
          nextId,   \* the autoincrement counter of MenuItem.id
          clock,    \* the store's now(), one tick per created row
          req,      \* the last request handled
          resp,     \* the response returned to it
          pend,     \* DocSpec: the requests in flight, by connection
          gw        \* GatewaySpec: the process's module cache, global and clients

vars == <<rows, nextId, clock, req, resp, pend, gw>>

----------------------------------------------------------------------------
(* Bounds *)

\* how many rows are ever created (ids 1..MaxCreates)
MaxCreates == 2

\* DocSpec: how many requests are in flight at once
MaxConns == 2

\* GatewaySpec: how many hot reloads the development server goes through
MaxReloads == 2

\* ModuleSpec: how many PrismaClients the evaluations may construct
MaxClients == 3

----------------------------------------------------------------------------
(* Text *)

Space == " "

IsSpace(c) == c = Space

\* String.prototype.trim
RECURSIVE TrimLeft(_)
TrimLeft(s) ==
    IF s # <<>> /\ IsSpace(Head(s)) THEN TrimLeft(Tail(s)) ELSE s

RECURSIVE TrimRight(_)
TrimRight(s) ==
    IF s # <<>> /\ IsSpace(s[Len(s)])
    THEN TrimRight(SubSeq(s, 1, Len(s) - 1))
    ELSE s

trim(s) == TrimRight(TrimLeft(s))

\* case folding of one character, as the store's insensitive mode compares
LowerChar(c) ==
    CASE c = "A" -> "a"
      [] c = "B" -> "b"
      [] c = "C" -> "c"
      [] c = "D" -> "d"
      [] OTHER   -> c

toLower(s) == [i \in 1..Len(s) |-> LowerChar(s[i])]

\* name: { equals: q, mode: 'insensitive' }
EqualsInsensitive(s, q) == toLower(s) = toLower(q)

\* name: { contains: q } in the default, case sensitive, mode
Contains(s, q) ==
    \E i \in 1..(Len(s) - Len(q) + 1) : SubSeq(s, i, i + Len(q) - 1) = q

\* name: { contains: q, mode: 'insensitive' }
ContainsInsensitive(s, q) ==
    \E i \in 1..(Len(s) - Len(q) + 1) :
        toLower(SubSeq(s, i, i + Len(q) - 1)) = toLower(q)

----------------------------------------------------------------------------
(* The id path parameter and parseInt *)

DigitChars == <<"0", "1", "2", "3", "4", "5", "6", "7", "8", "9">>

IsDigit(c) == \E d \in 1..Len(DigitChars) : DigitChars[d] = c

DigitVal(c) == (CHOOSE d \in 1..Len(DigitChars) : DigitChars[d] = c) - 1

\* the value of the longest prefix of digits of s, continuing from acc
RECURSIVE ParseDigits(_, _)
ParseDigits(s, acc) ==
    IF s # <<>> /\ IsDigit(Head(s))
    THEN ParseDigits(Tail(s), 10 * acc + DigitVal(Head(s)))
    ELSE acc

\* parseInt(string): leading blanks skipped, an optional sign, then the
\* longest run of digits; NaN when there is no digit at that place
parseInt(p) ==
    LET s   == TrimLeft(p)
        neg == s # <<>> /\ Head(s) = "-"
        t   == IF s # <<>> /\ Head(s) \in {"-", "+"} THEN Tail(s) ELSE s
    IN  IF t = <<>> \/ ~IsDigit(Head(t))
        THEN [nan |-> TRUE, val |-> 0]
        ELSE [nan |-> FALSE,
              val |-> IF neg THEN 0 - ParseDigits(t, 0) ELSE ParseDigits(t, 0)]

isNaN(n) == n.nan

\* the decimal text of a small natural number (the id in a URL)
IdParam(i) == <<DigitChars[i + 1]>>

----------------------------------------------------------------------------
(* Requests *)

\* the texts a client sends as a name or as a search query
NameInputs ==
    { <<>>, <<" ">>, <<"a">>, <<"a", "b">>, <<" ", "A", "B">> }

\* the value of body.name: absent, a number or a text
Undefined == [t |-> "undefined", n |-> 0, s |-> <<>>]

NumberVal(k) == [t |-> "number", n |-> k, s |-> <<>>]

StringVal(x) == [t |-> "string", n |-> 0, s |-> x]

NameValues ==
    {Undefined, NumberVal(5)} \cup {StringVal(x) : x \in NameInputs}

\* a request body: text that is no JSON, the JSON null, or a JSON object
Bodies ==
    { [json |-> "malformed", name |-> Undefined],
      [json |-> "null", name |-> Undefined] }
    \cup { [json |-> "object", name |-> v] : v \in NameValues }

NoBody == [json |-> "none", name |-> Undefined]

\* the id segments of a URL: the ids in use and around them, and texts that
\* are no positive integer
IdParams ==
    { IdParam(i) : i \in 0..(MaxCreates + 1) }
    \cup { <<"-", "1">>, <<"x">>, <<"1", "x">> }

NoParam == <<>>

\* the q parameter of a search: searchParams.get returns null when absent
NoQuery == [present |-> FALSE, s |-> <<>>]

Query(x) == [present |-> TRUE, s |-> x]

Queries == {NoQuery} \cup { Query(x) : x \in NameInputs }

\* what the store's client throws at a call: nothing, or an error that
\* carries its own detail (the server is unreachable, the pool timed out)
NoError == "none"

StoreErrors == {"P1001", "P2024"}

Faults == {NoError} \cup StoreErrors

Thrown(e) == e # NoError

\* a request; fault is what the store throws at the call the request makes,
\* limit and offset are the further parameters of a search URL
Request(h, p, b, q, f) ==
    [handler |-> h, id |-> p, body |-> b, q |-> q, fault |-> f,
     limit |-> NoQuery, offset |-> NoQuery]

NoRequest == Request("none", NoParam, NoBody, NoQuery, NoError)

\* the limit and offset parameters a client sends with a search
\* as <<limit, offset>>: neither, a small limit, a limit that is no number, a
\* limit above 100, a negative offset
SearchWindows ==
    { <<NoQuery, NoQuery>>,
      <<Query(<<"1">>), NoQuery>>,
      <<Query(<<"x">>), NoQuery>>,
      <<Query(<<"1", "0", "1">>), NoQuery>>,
      <<NoQuery, Query(<<"-", "1">>)>> }

SearchRequest(q, l, o, f) ==
    [Request("GET_search", NoParam, NoBody, q, f) EXCEPT !.limit = l, !.offset = o]

----------------------------------------------------------------------------
(* The store: model MenuItem { id, name, createdAt } behind the Prisma client *)

NoRow == [id |-> 0, name |-> <<>>, createdAt |-> 0]

Row(i, n, c) == [id |-> i, name |-> n, createdAt |-> c]

Ids(t) == { r.id : r \in t }

\* findUnique({ where: { id } }): the row, or null
findUnique(t, i) ==
    IF i \in Ids(t) THEN CHOOSE r \in t : r.id = i ELSE NoRow

\* the orders in which a findMany without orderBy may return a set of rows
Listings(t) ==
    { l \in [1..Cardinality(t) -> t] :
        \A i, j \in 1..Cardinality(t) : i # j => l[i] # l[j] }

\* findMany({ where: { name: { contains: q, mode: 'insensitive' } } })
Matching(t, q) == { r \in t : ContainsInsensitive(r.name, q) }

\* an id taken as one more than the largest id in the table
NewId_AfterLargestLive(db) ==
    IF db.rows = {} THEN 1
    ELSE 1 + (CHOOSE i \in Ids(db.rows) : \A j \in Ids(db.rows) : j <= i)

\* id Int @id @default(autoincrement()): the next value of the sequence
NewId(db) == db.nextId

\* create({ data: { name } }): id from the autoincrement, createdAt from now()
Created(i, c, n) == Row(i, n, c)

\* an update that writes the row anew, with a createdAt of its own
Updated_Recreated(r, n) == Row(r.id, n, r.createdAt + 1)

\* update({ where: { id }, data: { name } }): the row with its name replaced
Updated(r, n) == [r EXCEPT !.name = n]

\* the client rejects a data.name that is no String before it queries
IsString(v) == v.t = "string"

----------------------------------------------------------------------------
(* Responses *)

\* a handler's result: the store after it and the response it returns;
\* ops are the calls it made on the Prisma client, in order
NoPagination ==
    [present |-> FALSE, total |-> 0, limit |-> 0, offset |-> 0, hasMore |-> FALSE]

Outcome(db, status, error, message, item, items, ops) ==
    [db |-> db,
     resp |-> [status |-> status, error |-> error, message |-> message,
               item |-> item, items |-> items, ops |-> ops,
               query |-> <<>>, pagination |-> NoPagination]]

\* an error response after the table was emptied
Fail_DropsRows(db, status, error, ops) ==
    Outcome([db EXCEPT !.rows = {}], status, error, "", NoRow, <<>>, ops)

\* NextResponse.json({ error }, { status }) with the store left as it is
Fail(db, status, error, ops) ==
    Outcome(db, status, error, "", NoRow, <<>>, ops)

NoResponse ==
    [status |-> 0, error |-> "", message |-> "", item |-> NoRow,
     items |-> <<>>, ops |-> <<>>, query |-> <<>>, pagination |-> NoPagination]

\* catch (error) { throw error }: the handler ends without a response
Caught_Rethrows(db, message, error, ops) == Fail(db, 0, error, ops)

\* a catch that issues the failed calls once more before it answers
Caught_Retries(db, message, error, ops) == Fail(db, 500, message, ops \o ops)

\* a catch that answers with the error's own text
Caught_LeaksError(db, message, error, ops) == Fail(db, 500, error, ops)

\* catch (error) { console.error(message, error);
\*                 return NextResponse.json({ error: message }, { status: 500 }) }
Caught(db, message, error, ops) == Fail(db, 500, message, ops)

\* what reading the body throws: request.json() on text that is no JSON, the
\* destructuring of null
BodyError(body) ==
    IF body.json = "malformed" THEN "SyntaxError"
    ELSE IF body.json = "null" THEN "TypeError"
    ELSE NoError

\* what a write throws: the store's own failure, else the client's rejection
\* of a name that is no String, else P2025 when no row has the id
WriteError(fault, name, found) ==
    IF Thrown(fault) THEN fault
    ELSE IF ~IsString(name) THEN "PrismaClientValidationError"
    ELSE IF ~found THEN "P2025"
    ELSE NoError

\* !name
Falsy(v) ==
    \/ v.t = "undefined"
    \/ v.t = "number" /\ v.n = 0
    \/ v.t = "string" /\ v.s = <<>>

----------------------------------------------------------------------------
(* app/api/menu-items/route.ts *)

\* GET all Menu-Items; listing is the order the store returns the rows in
GET_all(db, listing, fault) ==
    IF Thrown(fault)
    THEN Caught(db, "Failed to fetch menu items", fault, <<"findMany">>)
    ELSE Outcome(db, 200, "", "", NoRow, listing, <<"findMany">>)

\* POST new Menu-Item
POST(db, body, fault) ==
    IF Thrown(BodyError(body))
    THEN Caught(db, "Failed to create menu item", BodyError(body), <<>>)
    ELSE IF Falsy(body.name)
    THEN Fail(db, 400, "Name is required", <<>>)
    ELSE IF Thrown(WriteError(fault, body.name, TRUE))
    THEN Caught(db, "Failed to create menu item",
                WriteError(fault, body.name, TRUE), <<"create">>)
    ELSE LET row == Created(NewId(db), db.clock, body.name.s)
         IN  Outcome([rows   |-> db.rows \cup {row},
                      nextId |-> db.nextId + 1,
                      clock  |-> db.clock + 1],
                     201, "", "", row, <<>>, <<"create">>)

----------------------------------------------------------------------------
(* app/api/menu-items/[id]/route.ts *)

\* GET one with the id checked only after the store was queried
GET_one_QueryBeforeCheck(db, param, fault) ==
    LET id == parseInt(param)
    IN  IF Thrown(fault)
        THEN Caught(db, "Failed to fetch menu item", fault, <<"findUnique">>)
        ELSE IF isNaN(id)
        THEN Fail(db, 400, "Invalid ID", <<"findUnique">>)
        ELSE LET menuItem == findUnique(db.rows, id.val)
             IN  IF menuItem = NoRow
                 THEN Fail(db, 404, "Menu item not found", <<"findUnique">>)
                 ELSE Outcome(db, 200, "", "", menuItem, <<>>, <<"findUnique">>)

\* GET one Menu-Item by ID
GET_one(db, param, fault) ==
    LET id == parseInt(param)
    IN  IF isNaN(id)
        THEN Fail(db, 400, "Invalid ID", <<>>)
        ELSE IF Thrown(fault)
        THEN Caught(db, "Failed to fetch menu item", fault, <<"findUnique">>)
        ELSE LET menuItem == findUnique(db.rows, id.val)
             IN  IF menuItem = NoRow
                 THEN Fail(db, 404, "Menu item not found", <<"findUnique">>)
                 ELSE Outcome(db, 200, "", "", menuItem, <<>>, <<"findUnique">>)

\* PUT - Update Menu-Item
PUT(db, param, body, fault) ==
    LET id == parseInt(param)
        err == WriteError(fault, body.name, id.val \in Ids(db.rows))
    IN  IF Thrown(BodyError(body))
        THEN Caught(db, "Failed to update menu item", BodyError(body), <<>>)
        ELSE IF isNaN(id)
        THEN Fail(db, 400, "Invalid ID", <<>>)
        ELSE IF Falsy(body.name)
        THEN Fail(db, 400, "Name is required", <<>>)
        ELSE IF Thrown(err)
        THEN Caught(db, "Failed to update menu item", err, <<"update">>)
        ELSE LET old == findUnique(db.rows, id.val)
                 new == Updated(old, body.name.s)
             IN  Outcome([db EXCEPT !.rows = (db.rows \ {old}) \cup {new}],
                         200, "", "", new, <<>>, <<"update">>)

\* DELETE that answers 200 and leaves the row in the table
DELETE_KeepsRow(db, param, fault) ==
    LET id == parseInt(param)
    IN  IF isNaN(id)
        THEN Fail(db, 400, "Invalid ID", <<>>)
        ELSE IF Thrown(fault) \/ id.val \notin Ids(db.rows)
        THEN Fail(db, 500, "Failed to delete menu item", <<"delete">>)
        ELSE Outcome(db, 200, "", "Menu item deleted successfully", NoRow, <<>>,
                     <<"delete">>)

\* DELETE Menu-Item
DELETE(db, param, fault) ==
    LET id == parseInt(param)
    IN  IF isNaN(id)
        THEN Fail(db, 400, "Invalid ID", <<>>)
        ELSE IF Thrown(fault) \/ id.val \notin Ids(db.rows)
        THEN \* delete throws when no row has the id (P2025)
             Caught(db, "Failed to delete menu item",
                    IF Thrown(fault) THEN fault ELSE "P2025", <<"delete">>)
        ELSE Outcome([db EXCEPT !.rows = db.rows \ {findUnique(db.rows, id.val)}],
                     200, "", "Menu item deleted successfully", NoRow, <<>>,
                     <<"delete">>)

----------------------------------------------------------------------------
(* app/search/route.ts *)

\* !query
NoSearchText(q) == ~q.present \/ q.s = <<>>

\* Search Menu-Items; listing is the order the store returns the matches in
GET_search(db, q, listing, fault) ==
    IF NoSearchText(q)
    THEN Fail(db, 400, "Search query is required", <<>>)
    ELSE IF Thrown(fault)
    THEN Caught(db, "Failed to search menu items", fault, <<"findMany">>)
    ELSE \* { query, results: menuItems, count: menuItems.length }
         [Outcome(db, 200, "", "", NoRow, listing, <<"findMany">>)
            EXCEPT !.resp.query = q.s]

----------------------------------------------------------------------------
(* The server, one request at a time *)

Db == [rows |-> rows, nextId |-> nextId, clock |-> clock]

\* the handler's outcome becomes the state; rows are created up to MaxCreates
Respond(r, out) ==
    /\ out.db.nextId <= MaxCreates + 1
    /\ rows' = out.db.rows
    /\ nextId' = out.db.nextId
    /\ clock' = out.db.clock
    /\ req' = r
    /\ resp' = out.resp
    /\ UNCHANGED <<pend, gw>>

\* the store can only fail a request that calls it
CallsStore(out) == out.resp.ops # <<>>

\* each handler, for requests drawn from the given sets and a store that
\* throws what F allows; a failing findMany returns no listing
ListAllOf(F) ==
    \E f \in F :
        \E l \in IF Thrown(f) THEN {<<>>} ELSE Listings(rows) :
            Respond(Request("GET_all", NoParam, NoBody, NoQuery, f),
                    GET_all(Db, l, f))

CreateOf(B, F) ==
    \E b \in B, f \in F :
        /\ Thrown(f) => CallsStore(POST(Db, b, NoError))
        /\ Respond(Request("POST", NoParam, b, NoQuery, f), POST(Db, b, f))

GetOneOf(P, F) ==
    \E p \in P, f \in F :
        /\ Thrown(f) => CallsStore(GET_one(Db, p, NoError))
        /\ Respond(Request("GET_one", p, NoBody, NoQuery, f), GET_one(Db, p, f))

UpdateOf(P, B, F) ==
    \E p \in P, b \in B, f \in F :
        /\ Thrown(f) => CallsStore(PUT(Db, p, b, NoError))
        /\ Respond(Request("PUT", p, b, NoQuery, f), PUT(Db, p, b, f))

DeleteOf(P, F) ==
    \E p \in P, f \in F :
        /\ Thrown(f) => CallsStore(DELETE(Db, p, NoError))
        /\ Respond(Request("DELETE", p, NoBody, NoQuery, f), DELETE(Db, p, f))

SearchOf(Q, W, F) ==
    \E q \in Q, w \in W, f \in F :
        \E l \in IF Thrown(f) THEN {<<>>} ELSE Listings(Matching(rows, q.s)) :
            /\ Thrown(f) => CallsStore(GET_search(Db, q, l, NoError))
            /\ Respond(SearchRequest(q, w[1], w[2], f), GET_search(Db, q, l, f))

\* Spec: every request, against a store that answers
ListAll == ListAllOf({NoError})

Create == CreateOf(Bodies, {NoError})

GetOne == GetOneOf(IdParams, {NoError})

Update == UpdateOf(IdParams, Bodies, {NoError})

Delete == DeleteOf(IdParams, {NoError})

Search == SearchOf(Queries, SearchWindows, {NoError})

\* a connection with no request in flight
Idle ==
    [pc |-> "idle", r |-> NoRequest, id |-> 0, name |-> <<>>,
     found |-> NoRow, ops |-> <<>>]

Conns == 1..MaxConns

----------------------------------------------------------------------------
(* lib/prisma.ts (documentation/02-ERREUR_INSTANCE_PRISMA.md) *)

\* the route modules that import { prisma } from lib/prisma
Routes == {"menu-items", "menu-items/[id]", "search"}

Envs == {"production", "development"}

\* no PrismaClient: an undefined global.prisma, a module not evaluated yet
NoClient == 0

\* the module without the global: export const prisma = new PrismaClient()
prismaModule_AlwaysNew(env, global, clients) ==
    [prisma |-> clients + 1, global |-> global, clients |-> clients + 1]

\* one evaluation of the module body, given global.prisma and the number of
\* clients constructed so far:
\*   export const prisma = globalForPrisma.prisma ?? new PrismaClient(...)
\*   if (process.env.NODE_ENV !== "production") globalForPrisma.prisma = prisma
prismaModule(env, global, clients) ==
    LET prisma == IF global # NoClient THEN global ELSE clients + 1
    IN  [prisma  |-> prisma,
         global  |-> IF env # "production" THEN prisma ELSE global,
         clients |-> IF global # NoClient THEN clients ELSE clients + 1]

\* a process just started under NODE_ENV = env: nothing is evaluated
NewProcess(env) ==
    [env     |-> env,
     global  |-> NoClient,                    \* global.prisma
     cache   |-> NoClient,                    \* the module cache's export
     clients |-> 0,                           \* PrismaClients constructed
     handle  |-> [h \in Routes |-> NoClient], \* each route module's prisma
     inUse   |-> [h \in Routes |-> NoClient], \* the client a request awaits
     pools   |-> {},                          \* clients that have connected
     reloads |-> 0]

\* the process state with every variable at its start
Boot(env) ==
    /\ rows = {}
    /\ nextId = 1
    /\ clock = 1
    /\ req = NoRequest
    /\ resp = NoResponse
    /\ pend = [c \in Conns |-> Idle]
    /\ gw = NewProcess(env)

Init == Boot("development")

UnchangedStore == UNCHANGED <<rows, nextId, clock, req, resp, pend>>

\* route module h is evaluated on its first request: its import of
\* lib/prisma takes the cached export, or evaluates the module, in one
\* synchronous step
Import(h) ==
    /\ gw.handle[h] = NoClient
    /\ UnchangedStore
    /\ IF gw.cache # NoClient
       THEN gw' = [gw EXCEPT !.handle[h] = gw.cache]
       ELSE LET m == prismaModule(gw.env, gw.global, gw.clients)
            IN  gw' = [gw EXCEPT !.handle[h] = m.prisma,
                                 !.cache = m.prisma,
                                 !.global = m.global,
                                 !.clients = m.clients]

\* a handler of route h awaits a call on its prisma; a client connects its
\* pool at its first call
Call(h) ==
    /\ gw.handle[h] # NoClient
    /\ gw.inUse[h] = NoClient
    /\ UnchangedStore
    /\ gw' = [gw EXCEPT !.inUse[h] = gw.handle[h],
                        !.pools = gw.pools \cup {gw.handle[h]}]

\* the call returns
Return(h) ==
    /\ gw.inUse[h] # NoClient
    /\ UnchangedStore
    /\ gw' = [gw EXCEPT !.inUse[h] = NoClient]

\* the development server reloads: the module cache is dropped and every
\* module is evaluated again at its next use; global survives
HotReload ==
    /\ gw.env # "production"
    /\ gw.reloads < MaxReloads
    /\ UnchangedStore
    /\ gw' = [gw EXCEPT !.cache = NoClient,
                        !.handle = [h \in Routes |-> NoClient],
                        !.reloads = gw.reloads + 1]

GatewayInit == \E env \in Envs : Boot(env)

GatewayNext ==
    \/ \E h \in Routes : Import(h) \/ Call(h) \/ Return(h)
    \/ HotReload

GatewaySpec == GatewayInit /\ [][GatewayNext]_vars

\* ModuleSpec: lib/prisma.ts evaluated any number of times, under either
\* NODE_ENV. Route h evaluates the module body again (no cached export:
\* after a reload, or from a copy of the module bundled with the route) and
\* takes the export of that evaluation
Evaluate(h) ==
    LET m == prismaModule(gw.env, gw.global, gw.clients)
    IN  /\ m.clients <= MaxClients
        /\ UnchangedStore
        /\ gw' = [gw EXCEPT !.handle[h] = m.prisma,
                            !.cache = m.prisma,
                            !.global = m.global,
                            !.clients = m.clients]

ModuleNext == \E h \in Routes : Evaluate(h) \/ Call(h) \/ Return(h)

ModuleSpec == GatewayInit /\ [][ModuleNext]_vars

----------------------------------------------------------------------------

Next == ListAll \/ Create \/ GetOne \/ Update \/ Delete \/ Search

Spec == Init /\ [][Next]_vars

\* FaultSpec: the requests that call the store, with names and ids that
\* pass the handlers' checks, against a store that may throw at any call
StoreBodies ==
    { [json |-> "object", name |-> StringVal(x)] :
        x \in {<<"a", "b">>, <<" ", "A", "B">>} }

StoreIdParams == { IdParam(i) : i \in 1..(MaxCreates + 1) }

StoreQueries == { Query(<<"a">>), Query(<<"a", "b">>) }

StoreWindows == { <<NoQuery, NoQuery>> }

FaultNext ==
    \/ ListAllOf(Faults)
    \/ CreateOf(StoreBodies, Faults)
    \/ GetOneOf(StoreIdParams, Faults)
    \/ UpdateOf(StoreIdParams, StoreBodies, Faults)
    \/ DeleteOf(StoreIdParams, Faults)
    \/ SearchOf(StoreQueries, StoreWindows, Faults)

FaultSpec == Init /\ [][FaultNext]_vars

\* FullSpec: every request against a store that answers, and the requests
\* that call the store against a store that may throw
Failing ==
    \/ ListAllOf(StoreErrors)
    \/ CreateOf(StoreBodies, StoreErrors)
    \/ GetOneOf(StoreIdParams, StoreErrors)
    \/ UpdateOf(StoreIdParams, StoreBodies, StoreErrors)
    \/ DeleteOf(StoreIdParams, StoreErrors)
    \/ SearchOf(StoreQueries, StoreWindows, StoreErrors)

FullNext == Next \/ Failing

FullSpec == Init /\ [][FullNext]_vars

----------------------------------------------------------------------------
(* documentation/03-ERREUR_ROUTES_INCOMPLETES.md, "Code Complet":           *)
(* a handler runs to its next await of a store call, and the calls of the  *)
(* requests in flight reach the store in any order                         *)

MinNameLength == 2

\* !name || typeof name !== 'string' || name.trim().length < 2
DocInvalidName(v) ==
    Falsy(v) \/ ~IsString(v) \/ Len(trim(v.s)) < MinNameLength

\* isNaN(id) || id <= 0
DocInvalidId(id) == isNaN(id) \/ id.val <= 0

\* findFirst({ where: { name: { equals: n } } }), case sensitive
findFirstByName_CaseSensitive(t, n) ==
    IF \E r \in t : r.name = n
    THEN CHOOSE r \in t : r.name = n
    ELSE NoRow

\* findFirst({ where: { name: { equals: n, mode: 'insensitive' } } })
findFirstByName(t, n) ==
    IF \E r \in t : EqualsInsensitive(r.name, n)
    THEN CHOOSE r \in t : EqualsInsensitive(r.name, n)
    ELSE NoRow

\* the lookup without id: { not: i }
findFirstByNameAnyId(t, n, i) == findFirstByName(t, n)

\* findFirst({ where: { name: { equals: n, mode: 'insensitive' }, id: { not: i } } })
findFirstByNameNotId(t, n, i) == findFirstByName({ r \in t : r.id # i }, n)

\* the request of connection c ends: its response goes out
DocReply(c, r, status, error, message, item, ops) ==
    /\ req' = r
    /\ resp' = [status |-> status, error |-> error, message |-> message,
                item |-> item, items |-> <<>>, ops |-> ops,
                query |-> <<>>, pagination |-> NoPagination]
    /\ pend' = [pend EXCEPT ![c] = Idle]
    /\ UNCHANGED gw

\* the request of connection c waits for its next store call
DocAwait(c, r, pc, id, name, found, ops) ==
    /\ pend' = [pend EXCEPT ![c] = [pc |-> pc, r |-> r, id |-> id,
                                    name |-> name, found |-> found, ops |-> ops]]
    /\ UNCHANGED <<req, resp, gw>>

\* the requests DocSpec sends: the store answers every call (Spec has the
\* failing store), and a body is no JSON or an object with a text name
DocBodies ==
    { [json |-> "malformed", name |-> Undefined] }
    \cup { [json |-> "object", name |-> StringVal(x)] :
             x \in (NameInputs \ {<<>>, <<" ">>}) \cup {<<"b", "a">>} }

DocIdParams == { IdParam(i) : i \in 0..MaxCreates } \cup { <<"x">> }

\* POST, to the answer of findFirst
DocPostCheck(c) ==
    /\ pend[c].pc = "idle"
    /\ UNCHANGED <<rows, nextId, clock>>
    /\ \E b \in DocBodies :
        LET r == Request("POST", NoParam, b, NoQuery, NoError)
        IN  IF b.json \in {"malformed", "null"}
            THEN DocReply(c, r, 500, "Failed to create menu item", "", NoRow, <<>>)
            ELSE IF Falsy(b.name) \/ ~IsString(b.name)
            THEN DocReply(c, r, 400, "Name is required and must be a string",
                          "", NoRow, <<>>)
            ELSE IF Len(trim(b.name.s)) < MinNameLength
            THEN DocReply(c, r, 400, "Name must be at least 2 characters long",
                          "", NoRow, <<>>)
            ELSE IF findFirstByName(rows, trim(b.name.s)) # NoRow
            THEN DocReply(c, r, 409, "Menu item with this name already exists",
                          "", NoRow, <<"findFirst">>)
            ELSE DocAwait(c, r, "create", 0, trim(b.name.s), NoRow,
                          <<"findFirst">>)

\* POST, the create and the response
DocPostCreate(c) ==
    /\ pend[c].pc = "create"
    /\ nextId <= MaxCreates
    /\ LET row == Created(nextId, clock, pend[c].name)
       IN  /\ rows' = rows \cup {row}
           /\ nextId' = nextId + 1
           /\ clock' = clock + 1
           /\ DocReply(c, pend[c].r, 201, "", "", row,
                       Append(pend[c].ops, "create"))

\* PUT, to the answer of findUnique
DocPutCheck(c) ==
    /\ pend[c].pc = "idle"
    /\ UNCHANGED <<rows, nextId, clock>>
    /\ \E p \in DocIdParams, b \in DocBodies :
        LET r  == Request("PUT", p, b, NoQuery, NoError)
            id == parseInt(p)
        IN  IF b.json \in {"malformed", "null"}
            THEN DocReply(c, r, 500, "Failed to update menu item", "", NoRow, <<>>)
            ELSE IF DocInvalidId(id)
            THEN DocReply(c, r, 400, "Invalid ID format", "", NoRow, <<>>)
            ELSE IF DocInvalidName(b.name)
            THEN DocReply(c, r, 400,
                          "Name is required and must be at least 2 characters",
                          "", NoRow, <<>>)
            ELSE IF findUnique(rows, id.val) = NoRow
            THEN DocReply(c, r, 404, "Menu item not found", "", NoRow,
                          <<"findUnique">>)
            ELSE DocAwait(c, r, "findFirst", id.val, trim(b.name.s),
                          findUnique(rows, id.val), <<"findUnique">>)

\* PUT, to the answer of findFirst
DocPutDuplicate(c) ==
    /\ pend[c].pc = "findFirst"
    /\ UNCHANGED <<rows, nextId, clock>>
    /\ LET ops == Append(pend[c].ops, "findFirst")
       IN  IF findFirstByNameNotId(rows, pend[c].name, pend[c].id) # NoRow
           THEN DocReply(c, pend[c].r, 409,
                         "Menu item with this name already exists", "", NoRow, ops)
           ELSE DocAwait(c, pend[c].r, "update", pend[c].id, pend[c].name,
                         pend[c].found, ops)

\* PUT, the update and the response
DocPutUpdate(c) ==
    /\ pend[c].pc = "update"
    /\ UNCHANGED <<nextId, clock>>
    /\ LET ops == Append(pend[c].ops, "update")
           old == findUnique(rows, pend[c].id)
           new == Updated(old, pend[c].name)
       IN  IF old = NoRow
           THEN \* update throws when no row has the id any more (P2025)
                /\ DocReply(c, pend[c].r, 500, "Failed to update menu item", "",
                            NoRow, ops)
                /\ UNCHANGED rows
           ELSE /\ rows' = (rows \ {old}) \cup {new}
                /\ DocReply(c, pend[c].r, 200, "", "", new, ops)

\* DELETE, to the answer of findUnique
DocDeleteCheck(c) ==
    /\ pend[c].pc = "idle"
    /\ UNCHANGED <<rows, nextId, clock>>
    /\ \E p \in DocIdParams :
        LET r  == Request("DELETE", p, NoBody, NoQuery, NoError)
            id == parseInt(p)
        IN  IF DocInvalidId(id)
            THEN DocReply(c, r, 400, "Invalid ID format", "", NoRow, <<>>)
            ELSE IF findUnique(rows, id.val) = NoRow
            THEN DocReply(c, r, 404, "Menu item not found", "", NoRow,
                          <<"findUnique">>)
            ELSE DocAwait(c, r, "delete", id.val, <<>>,
                          findUnique(rows, id.val), <<"findUnique">>)

\* DELETE, the delete and the response
DocDeleteRemove(c) ==
    /\ pend[c].pc = "delete"
    /\ UNCHANGED <<nextId, clock>>
    /\ LET ops == Append(pend[c].ops, "delete")
           old == findUnique(rows, pend[c].id)
       IN  IF old = NoRow
           THEN \* delete throws when no row has the id any more (P2025)
                /\ DocReply(c, pend[c].r, 500, "Failed to delete menu item", "",
                            NoRow, ops)
                /\ UNCHANGED rows
           ELSE /\ rows' = rows \ {old}
                /\ DocReply(c, pend[c].r, 200, "",
                            "Menu item deleted successfully", pend[c].found, ops)

DocNext ==
    \E c \in Conns :
        \/ DocPostCheck(c)
        \/ DocPostCreate(c)
        \/ DocPutCheck(c)
        \/ DocPutDuplicate(c)
        \/ DocPutUpdate(c)
        \/ DocDeleteCheck(c)
        \/ DocDeleteRemove(c)

DocSpec == Init /\ [][DocNext]_vars

----------------------------------------------------------------------------
(* Solution 2, "Gestion d'Erreurs Avancee": validateMenuItemData,            *)
(* handlePrismaError and the GET and POST built on them                      *)

\* data.name.length > 100
MaxNameLength == 100

\* what is thrown inside a handler, by its class and, for a known request
\* error, its code
ErrorOf(class, code) == [class |-> class, code |-> code]

NoPrismaError == ErrorOf("none", "")

KnownCodes == {"P2000", "P2002", "P2003", "P2025", "P2034"}

\* the errors a store call throws: the classes of the Prisma client, a plain
\* Error, and a value that is no Error at all
PrismaErrors ==
    { ErrorOf("PrismaClientKnownRequestError", c) : c \in KnownCodes }
    \cup { ErrorOf(k, "") : k \in { "PrismaClientUnknownRequestError",
                                     "PrismaClientValidationError",
                                     "PrismaClientInitializationError",
                                     "PrismaClientRustPanicError",
                                     "Error", "string" } }

IsThrown(e) == e.class # "none"

\* a translation that maps every error to the generic answer
handlePrismaError_Generic(error) ==
    [message |-> "Internal server error", status |-> 500]

handlePrismaError(error) ==
    IF error.class = "PrismaClientKnownRequestError"
    THEN CASE error.code = "P2002" ->
                [message |-> "A record with this value already exists",
                 status |-> 409]
           [] error.code = "P2025" ->
                [message |-> "Record not found", status |-> 404]
           [] error.code = "P2003" ->
                [message |-> "Foreign key constraint violation", status |-> 400]
           [] OTHER ->
                [message |-> "Database operation failed", status |-> 500]
    ELSE IF error.class = "PrismaClientUnknownRequestError"
    THEN [message |-> "Unknown database error occurred", status |-> 500]
    ELSE IF error.class = "PrismaClientValidationError"
    THEN [message |-> "Invalid data provided", status |-> 400]
    ELSE [message |-> "Internal server error", status |-> 500]

\* the result of validateMenuItemData: the object it returns, or what it
\* throws; data.name on null throws a TypeError before any check
validateMenuItemData(data) ==
    LET thrown(class, message) ==
            [error |-> ErrorOf(class, ""), message |-> message, name |-> <<>>]
    IN  IF data.json = "null"
        THEN thrown("TypeError", "Cannot read properties of null")
        ELSE IF Falsy(data.name)
        THEN thrown("ValidationError", "Name is required")
        ELSE IF ~IsString(data.name)
        THEN thrown("ValidationError", "Name must be a string")
        ELSE IF Len(trim(data.name.s)) < MinNameLength
        THEN thrown("ValidationError", "Name must be at least 2 characters long")
        ELSE IF Len(data.name.s) > MaxNameLength
        THEN thrown("ValidationError", "Name must not exceed 100 characters")
        ELSE [error |-> NoPrismaError, message |-> "",
              name |-> trim(data.name.s)]

\* findMany({ orderBy: { createdAt: 'desc' } })
NewestFirst(t) ==
    CHOOSE l \in Listings(t) :
        \A i, j \in 1..Len(l) : i < j => l[i].createdAt > l[j].createdAt

\* catch: { success: false, error: message } with the translated status
Translated(db, error, ops) ==
    Fail(db, handlePrismaError(error).status, handlePrismaError(error).message,
         ops)

Solution2_GET(db, fault) ==
    IF IsThrown(fault)
    THEN Translated(db, fault, <<"findMany">>)
    ELSE Outcome(db, 200, "", "", NoRow, NewestFirst(db.rows), <<"findMany">>)

JsonContent == "application/json"

Solution2_POST(db, contentType, body, fault) ==
    LET validatedData == validateMenuItemData(body)
    IN  IF contentType # JsonContent
        THEN Fail(db, 400, "Content-Type must be application/json", <<>>)
        ELSE IF body.json = "malformed"
        THEN Fail(db, 400, "Invalid JSON format", <<>>)
        ELSE IF validatedData.error.class = "ValidationError"
        THEN Fail(db, 400, validatedData.message, <<>>)
        ELSE IF IsThrown(validatedData.error)
        THEN Translated(db, validatedData.error, <<>>)
        ELSE IF IsThrown(fault)
        THEN Translated(db, fault, <<"create">>)
        ELSE LET row == Created(NewId(db), db.clock, validatedData.name)
             IN  Outcome([rows   |-> db.rows \cup {row},
                          nextId |-> db.nextId + 1,
                          clock  |-> db.clock + 1],
                         201, "", "Menu item created successfully", row, <<>>,
                         <<"create">>)

\* a text of n letters
Letters(n) == [i \in 1..n |-> "a"]

\* the names around the limits of the validator
LimitNames ==
    { <<>>, <<"a">>, <<" ", "a", " ">>, <<"a", "b">>, <<" ", "A", "B">>,
      Letters(MaxNameLength), Letters(MaxNameLength + 1),
      Letters(MaxNameLength) \o <<" ">>, <<" ">> \o Letters(MaxNameLength - 1) }

Solution2Bodies ==
    { [json |-> "malformed", name |-> Undefined],
      [json |-> "null", name |-> Undefined] }
    \cup { [json |-> "object", name |-> v] :
             v \in {Undefined, NumberVal(5)}
                     \cup { StringVal(x) : x \in LimitNames } }

ContentTypes == {JsonContent, "text/plain"}

Solution2Request(h, contentType, body, fault) ==
    [handler |-> h, id |-> NoParam, body |-> body, q |-> NoQuery,
     fault |-> fault, limit |-> NoQuery, offset |-> NoQuery,
     contentType |-> contentType]

Solution2List ==
    \E f \in {NoPrismaError} \cup PrismaErrors :
        LET r == Solution2Request("Solution2_GET", JsonContent, NoBody, f)
        IN  /\ CallsStore(Solution2_GET(Db, f))
            /\ Respond(r, Solution2_GET(Db, f))

Solution2Create ==
    \E t \in ContentTypes, b \in Solution2Bodies,
       f \in {NoPrismaError} \cup PrismaErrors :
        /\ IsThrown(f) =>
              CallsStore(Solution2_POST(Db, t, b, NoPrismaError))
        /\ Respond(Solution2Request("Solution2_POST", t, b, f),
                   Solution2_POST(Db, t, b, f))

Solution2Next == Solution2List \/ Solution2Create

Solution2Spec == Init /\ [][Solution2Next]_vars

----------------------------------------------------------------------------
(* The claims *)

\* a name the specification calls valid: a text of 2 to 100 characters once
\* trimmed
ValidName(v) ==
    /\ IsString(v)
    /\ Len(trim(v.s)) >= MinNameLength
    /\ Len(trim(v.s)) <= MaxNameLength

\* a request whose body is a JSON object with a valid name
HasValidName(r) == r.body.json = "object" /\ ValidName(r.body.name)

\* a request whose body is a JSON object with a text name too short once trimmed
HasShortName(r) ==
    /\ r.body.json = "object"
    /\ IsString(r.body.name)
    /\ Len(trim(r.body.name.s)) < MinNameLength

\* the ids a URL names in decimal
WellFormedIds == 1..(MaxCreates + 1)

\* the request names the well-formed id i
NamesId(r, i) == i \in WellFormedIds /\ r.id = IdParam(i)

ById == {"GET_one", "PUT", "DELETE"}

\* C1: the lifecycle of a record, step by step, while the store answers: a
\* POST with a valid name returns 201 with a record that is stored under a
\* fresh id; a GET of a stored id returns 200 with the stored record; a PUT
\* of a stored id with a valid name returns 200 with the record as updated
\* and stored; a DELETE of a stored id returns 200 with a confirmation and
\* removes the record; an id once removed never comes back, and a GET of an
\* id that is not stored returns 404.
C1_LifecycleStep ==
    /\ (req'.handler = "POST" /\ HasValidName(req') /\ ~Thrown(req'.fault))
         => /\ resp'.status = 201
            /\ resp'.item \in rows'
            /\ resp'.item.id \notin Ids(rows)
            /\ resp'.item.id \in WellFormedIds
    /\ \A i \in WellFormedIds :
        /\ (req'.handler = "GET_one" /\ NamesId(req', i) /\ ~Thrown(req'.fault)
              /\ i \in Ids(rows))
             => /\ resp'.status = 200
                /\ resp'.item = findUnique(rows, i)
                /\ rows' = rows
        /\ (req'.handler = "PUT" /\ NamesId(req', i) /\ ~Thrown(req'.fault)
              /\ i \in Ids(rows) /\ HasValidName(req'))
             => /\ resp'.status = 200
                /\ resp'.item = findUnique(rows', i)
                /\ trim(resp'.item.name) = trim(req'.body.name.s)
        /\ (req'.handler = "DELETE" /\ NamesId(req', i) /\ ~Thrown(req'.fault)
              /\ i \in Ids(rows))
             => /\ resp'.status = 200
                /\ resp'.message # ""
                /\ i \notin Ids(rows')
        /\ (i < nextId /\ i \notin Ids(rows)) => i \notin Ids(rows')
        /\ (req'.handler = "GET_one" /\ NamesId(req', i) /\ ~Thrown(req'.fault)
              /\ i \notin Ids(rows))
             => resp'.status = 404

C1_Lifecycle == [][C1_LifecycleStep]_vars

\* a GET has returned 404 for an id that was created and then deleted
C1_Witness ==
    /\ req.handler = "GET_one"
    /\ resp.status = 404
    /\ \E i \in WellFormedIds : NamesId(req, i) /\ i < nextId

\* C2: after a successful create of a valid name, get-by-id of the returned
\* id returns a record whose name is the trimmed input.
C2_CreateThenGetTrimmed ==
    (req.handler = "POST" /\ resp.status = 201 /\ HasValidName(req))
      => GET_one(Db, IdParam(resp.item.id), NoError).resp.item.name
           = trim(req.body.name.s)

\* C3: while the store answers, get-by-id, update with a valid name and
\* delete of a well-formed id that is not stored each return 404.
C3_AbsentIdStep ==
    \A i \in WellFormedIds :
        (/\ req'.handler \in ById
         /\ NamesId(req', i)
         /\ i \notin Ids(rows)
         /\ ~Thrown(req'.fault)
         /\ req'.handler = "PUT" => HasValidName(req'))
          => resp'.status = 404

C3_AbsentIdIs404 == [][C3_AbsentIdStep]_vars

\* C4: while the store answers, a delete of an id that was created and has
\* been deleted returns 404, never 500.
C4_DeleteAgainStep ==
    \A i \in WellFormedIds :
        (/\ req'.handler = "DELETE"
         /\ NamesId(req', i)
         /\ i < nextId
         /\ i \notin Ids(rows)
         /\ ~Thrown(req'.fault))
          => resp'.status = 404 /\ resp'.status # 500

C4_DeleteAgainIs404 == [][C4_DeleteAgainStep]_vars

\* C5: a create or an update whose name is shorter than 2 characters or
\* empty once trimmed returns 400 and leaves the set of records unchanged.
C5_ShortNameStep ==
    (req'.handler \in {"POST", "PUT"} /\ HasShortName(req'))
      => resp'.status = 400 /\ rows' = rows

C5_ShortNameIs400 == [][C5_ShortNameStep]_vars

\* C6: a POST whose body is no JSON has been answered 400 with an error
\* envelope, never 500.
C6_MalformedJsonIs400 ==
    (req.handler = "POST" /\ req.body.json = "malformed")
      => resp.status = 400 /\ resp.error # "" /\ resp.status # 500

\* the id parameter is non-numeric, or parses to zero or to a negative integer
InvalidIdParam(p) == isNaN(parseInt(p)) \/ parseInt(p).val <= 0

\* C7: a GET, PUT or DELETE by id whose id parameter is non-numeric or parses
\* to zero or a negative integer has been answered 400 with no store
\* operation performed.
C7_InvalidIdIs400 ==
    (req.handler \in ById /\ InvalidIdParam(req.id))
      => resp.status = 400 /\ resp.ops = <<>>

\* C8: a request answered 400, in any handler, has performed no store
\* operation.
C8_NoStoreCallBefore400 == resp.status = 400 => resp.ops = <<>>

\* a PUT that names a stored id has been answered 400 for its name
C8_Witness ==
    /\ req.handler = "PUT"
    /\ resp.status = 400
    /\ \E i \in Ids(rows) : NamesId(req, i)

\* C9: every stored name is non-blank and has 2 to 100 characters.
C9_StoredNamesValid ==
    \A r \in rows :
        /\ trim(r.name) # <<>>
        /\ Len(r.name) >= MinNameLength
        /\ Len(r.name) <= MaxNameLength

\* C10: with the uniqueness check of the documented handlers, no two live
\* records have names that are equal ignoring case, whatever the
\* interleaving of the requests in flight.
C10_NamesUniqueIgnoringCase ==
    \A r1, r2 \in rows : r1.id # r2.id => ~EqualsInsensitive(r1.name, r2.name)

\* C11: the process holds at most one store client: the module constructs
\* at most one PrismaClient, at most one client has connected a pool, and
\* every route module and every request in flight holds that same client.
C11_OneClient ==
    /\ gw.clients <= 1
    /\ Cardinality(gw.pools) <= 1
    /\ \A h \in Routes :
        /\ gw.handle[h] \in {NoClient, 1}
        /\ gw.inUse[h] \in {NoClient, 1}

\* after a hot reload, two routes hold a client and both have a call in
\* flight on it
C11_Witness ==
    /\ gw.reloads > 0
    /\ \E h1, h2 \in Routes :
        /\ h1 # h2
        /\ gw.handle[h1] # NoClient /\ gw.handle[h2] # NoClient
        /\ gw.inUse[h1] # NoClient /\ gw.inUse[h2] # NoClient

\* C12: a created record gets a positive id that no record created before
\* it had, deleted or not: every id ever given is below the store's
\* sequence, the sequence never goes back, and a new id is at or above it.
C12_FreshIdStep ==
    /\ \A r \in rows : r.id >= 1 /\ r.id < nextId
    /\ nextId' >= nextId
    /\ \A r \in rows' :
        r.id \notin Ids(rows) => r.id >= 1 /\ r.id >= nextId /\ r.id < nextId'

C12_IdsNeverReused == [][C12_FreshIdStep]_vars

\* a record has been created after an earlier record was deleted
C12_Witness ==
    /\ req.handler = "POST"
    /\ resp.status = 201
    /\ \E i \in 1..(resp.item.id - 1) : i \notin Ids(rows)

\* the response of the handler of request r when the store throws e
Replay(r, e) ==
    CASE r.handler = "GET_all"    -> GET_all(Db, <<>>, e)
      [] r.handler = "POST"       -> POST(Db, r.body, e)
      [] r.handler = "GET_one"    -> GET_one(Db, r.id, e)
      [] r.handler = "PUT"        -> PUT(Db, r.id, r.body, e)
      [] r.handler = "DELETE"     -> DELETE(Db, r.id, e)
      [] r.handler = "GET_search" -> GET_search(Db, r.q, <<>>, e)

\* C13: a request whose store call failed has been answered 500 with a
\* message and nothing else, and the same request with any other error
\* detail gets the very same response.
C13_FailureIsGeneric500 ==
    Thrown(req.fault) =>
        /\ resp.status = 500
        /\ resp.error # ""
        /\ resp.item = NoRow /\ resp.items = <<>>
        /\ \A e \in StoreErrors : Replay(req, e).resp = resp

\* an update of a stored id has failed in the store
C13_Witness ==
    /\ Thrown(req.fault)
    /\ req.handler = "PUT"
    /\ resp.status = 500
    /\ \E i \in Ids(rows) : NamesId(req, i)

\* the page window the documented search reads from the URL:
\* parseInt(searchParams.get('limit') || '10'), parseInt(... || '0')
MaxLimit == 100

DefaultLimit == 10

Number(n) == [nan |-> FALSE, val |-> n]

WindowParam(p, default) ==
    IF p.present /\ p.s # <<>> THEN parseInt(p.s) ELSE Number(default)

LimitOf(r) == WindowParam(r.limit, DefaultLimit)

OffsetOf(r) == WindowParam(r.offset, 0)

ReachedStore == resp.ops # <<>>

\* C14: a search whose limit is above 100 is answered 400 without a call
\* on the store.
C14_LimitAbove100Is400 ==
    (req.handler = "GET_search" /\ ~LimitOf(req).nan
        /\ LimitOf(req).val > MaxLimit)
    => (resp.status = 400 /\ ~ReachedStore)

\* C15: an accepted search with limit l and offset o over total matching
\* records reports hasMore = (o + l < total), returns at most l records, and
\* returns exactly l of them with hasMore true when more than l match from
\* offset 0.
C15_PageAndHasMore ==
    LET l     == LimitOf(req).val
        o     == OffsetOf(req).val
        total == Cardinality(Matching(rows, trim(req.q.s)))
    IN  (req.handler = "GET_search" /\ resp.status = 200
            /\ ~LimitOf(req).nan /\ l >= 1 /\ l <= MaxLimit
            /\ ~OffsetOf(req).nan /\ o >= 0)
        => /\ resp.pagination.present
           /\ resp.pagination.hasMore = (o + l < total)
           /\ Len(resp.items) <= l
           /\ (o = 0 /\ total > l) =>
                (Len(resp.items) = l /\ resp.pagination.hasMore)

\* name contains q as a substring, letters compared without their case
HasSubstringIgnoringCase(name, q) ==
    \E i \in 0..(Len(name) - Len(q)) :
        \A k \in 1..Len(q) : LowerChar(name[i + k]) = LowerChar(q[k])

C17_ShortQueryIs400 ==
    (req.handler = "GET_search"
        /\ (~req.q.present \/ Len(trim(req.q.s)) < MinNameLength))
    => (resp.status = 400 /\ ~ReachedStore)

\* C18: every search that reaches the store has an offset that is a number
\* >= 0 and a limit that is a number <= 100.
C18_WindowValidatedBeforeStore ==
    (req.handler = "GET_search" /\ ReachedStore)
    => /\ ~OffsetOf(req).nan /\ OffsetOf(req).val >= 0
       /\ ~LimitOf(req).nan /\ LimitOf(req).val <= MaxLimit

\* C19: the list returns every stored record, and of any two records in it
\* the one created later comes first.
C19_ListNewestFirst ==
    (req.handler = "GET_all" /\ resp.status = 200)
    => /\ { resp.items[i] : i \in 1..Len(resp.items) } = rows
       /\ \A i, j \in 1..Len(resp.items) :
            i < j => resp.items[i].createdAt > resp.items[j].createdAt

\* a live record has the name n, letters compared without their case
LiveDuplicate(t, n) ==
    \E r \in t : Len(r.name) = Len(n)
                 /\ \A k \in 1..Len(n) : LowerChar(r.name[k]) = LowerChar(n[k])

\* C20: with the documented uniqueness check, a create whose trimmed name
\* equals, ignoring case, the name of a record that is live when the handler
\* looks it up is answered 409 and leaves the store as it is; the handler
\* goes on to its create only when no live record has the name.
C20_DuplicateStep ==
    /\ (/\ req'.handler = "POST"
        /\ pend' = pend
        /\ req'.body.json = "object"
        /\ IsString(req'.body.name)
        /\ LiveDuplicate(rows, trim(req'.body.name.s)))
       => (resp'.status = 409 /\ rows' = rows /\ nextId' = nextId)
    /\ \A c \in Conns :
        (pend[c].pc = "idle" /\ pend'[c].pc = "create")
        => ~LiveDuplicate(rows, pend'[c].name)

C20_DuplicateCreateIs409 == [][C20_DuplicateStep]_vars

\* a create has been refused for a name that differs from a live record's
\* name by case and blanks only
C20_Witness ==
    /\ req.handler = "POST"
    /\ resp.status = 409
    /\ \E r \in rows :
        /\ r.name # req.body.name.s
        /\ r.name # trim(req.body.name.s)
        /\ LiveDuplicate({r}, trim(req.body.name.s))

\* a live record other than record i has the name n, ignoring case
OtherLiveDuplicate(t, n, i) == LiveDuplicate({ r \in t : r.id # i }, n)

\* C21: with the documented uniqueness check, an update of record i to a
\* name that equals, ignoring case, the name of a different live record is
\* answered 409 and changes nothing; otherwise, and in particular when only
\* record i itself has the name in some letter case, the handler goes on to
\* its update, which on a record still stored is answered 200 and stores
\* the name.
C21_UpdateStep ==
    \A c \in Conns :
        /\ (pend[c].pc = "findFirst" /\ pend'[c] # pend[c])
           => IF OtherLiveDuplicate(rows, pend[c].name, pend[c].id)
              THEN /\ req' = pend[c].r
                   /\ resp'.status = 409
                   /\ rows' = rows
                   /\ pend'[c] = Idle
              ELSE /\ pend'[c].pc = "update"
                   /\ rows' = rows
        /\ (pend[c].pc = "update" /\ pend'[c] # pend[c]
                /\ pend[c].id \in Ids(rows))
           => /\ req' = pend[c].r
              /\ resp'.status = 200
              /\ resp'.item = [findUnique(rows, pend[c].id)
                                 EXCEPT !.name = pend[c].name]
              /\ rows' = { r \in rows : r.id # pend[c].id } \cup {resp'.item}

C21_DuplicateUpdateIs409 == [][C21_UpdateStep]_vars

\* an update has been refused for the name, in another letter case, of a
\* different record, in a store without duplicates, while another update
\* of a record to its own name in another letter case has passed the
\* duplicate lookup
C21_Witness ==
    /\ req.handler = "PUT"
    /\ resp.status = 409
    /\ \A r1, r2 \in rows : r1.id # r2.id => ~LiveDuplicate({r1}, r2.name)
    /\ \E r \in rows :
        /\ r.id # parseInt(req.id).val
        /\ r.name # trim(req.body.name.s)
        /\ LiveDuplicate({r}, trim(req.body.name.s))
    /\ \E c \in Conns :
        /\ pend[c].pc = "update"
        /\ \E r \in rows :
            /\ r.id = pend[c].id
            /\ r.name # pend[c].name
            /\ LiveDuplicate({r}, pend[c].name)

\* C22: within one request no store operation is issued twice, and a
\* request whose store operation failed has been answered 500 with that
\* one operation issued and none after it.
C22_NoRetry ==
    /\ \A i, j \in 1..Len(resp.ops) : i # j => resp.ops[i] # resp.ops[j]
    /\ Thrown(req.fault) => (resp.status = 500 /\ Len(resp.ops) = 1)

\* a delete of a stored id has failed in the store and was issued once
C22_Witness ==
    /\ Thrown(req.fault)
    /\ req.handler = "DELETE"
    /\ resp.ops = <<"delete">>
    /\ \E i \in Ids(rows) : NamesId(req, i)

\* C25: a successful update of record i replaces record i by a record with
\* the same id and createdAt, returns it, and leaves every other record and
\* the number of records as they were.
C25_UpdateFrameStep ==
    (req'.handler = "PUT" /\ resp'.status = 200)
    => \E old \in rows :
        /\ old.id = parseInt(req'.id).val
        /\ resp'.item.id = old.id
        /\ resp'.item.createdAt = old.createdAt
        /\ rows' = (rows \ {old}) \cup {resp'.item}
        /\ \A r \in rows : r.id # old.id => r \in rows'
        /\ Cardinality(rows') = Cardinality(rows)

C25_UpdateChangesOnlyName == [][C25_UpdateFrameStep]_vars

\* the older of two stored records has been updated
C25_Witness ==
    /\ req.handler = "PUT"
    /\ resp.status = 200
    /\ resp.item \in rows
    /\ \E r \in rows : r.createdAt > resp.item.createdAt

\* C26: a PUT whose id parameter is no number is answered 400 whatever its
\* body is.
C26_InvalidIdBeforeBody ==
    (req.handler = "PUT" /\ isNaN(parseInt(req.id))) => resp.status = 400

\* C27: the delete step of a DELETE whose existence check has passed is
\* answered 200 when the record is still stored, and 404, never 500, when a
\* concurrent DELETE has removed it in between.
C27_ConcurrentDeleteStep ==
    \A c \in Conns :
        (pend[c].pc = "delete" /\ pend'[c] # pend[c])
        => IF pend[c].id \in Ids(rows)
           THEN resp'.status = 200 /\ rows' = rows \ {findUnique(rows, pend[c].id)}
           ELSE resp'.status = 404 /\ rows' = rows

C27_ConcurrentDelete200And404 == [][C27_ConcurrentDeleteStep]_vars

Reads == {"GET_all", "GET_one", "GET_search"}

ErrorStatuses == {400, 404, 409, 500}

\* C28: a request answered 400, 404, 409 or 500, and a list, get-by-id or
\* search request whatever its answer, leaves the stored records as they
\* were before it.
C28_StoreFrameStep ==
    (resp'.status \in ErrorStatuses \/ req'.handler \in Reads)
    => rows' = rows

C28_StoreChangesOnlyOnWrite == [][C28_StoreFrameStep]_vars

\* a create has failed in the store while records were stored
C28_Witness ==
    /\ req.handler = "POST"
    /\ Thrown(req.fault)
    /\ resp.status = 500
    /\ rows # {}

Statuses == {200, 201} \cup ErrorStatuses

\* C29: every request has been answered, with a status among 200, 201,
\* 400, 404, 409 and 500, whatever its input and whatever the store threw.
C29_AlwaysResponds ==
    req.handler # "none" => resp.status \in Statuses

\* a PUT whose body is no JSON has been answered
C29_Witness ==
    /\ req.handler = "PUT"
    /\ req.body.json = "malformed"
    /\ resp.status = 500
    /\ rows # {}

\* C23: the create built on validateMenuItemData accepts exactly the bodies
\* whose name is present, is text and has a trimmed length from 2 to 100,
\* stores the trimmed name for each of them, and answers 400 to every other
\* body.
C23_ValidatorAcceptsExactlyValid ==
    (/\ req.handler = "Solution2_POST"
     /\ req.contentType = JsonContent
     /\ req.body.json # "malformed"
     /\ ~IsThrown(req.fault))
    => IF HasValidName(req)
       THEN /\ resp.status = 201
            /\ resp.item.name = trim(req.body.name.s)
            /\ resp.item \in rows
       ELSE resp.status = 400

\* the status the specification gives to an error
TranslatedStatus(e) ==
    IF e.class = "PrismaClientKnownRequestError" /\ e.code = "P2002" THEN 409
    ELSE IF e.class = "PrismaClientKnownRequestError" /\ e.code = "P2025"
    THEN 404
    ELSE IF e.class = "PrismaClientValidationError"
            \/ (e.class = "PrismaClientKnownRequestError" /\ e.code = "P2003")
    THEN 400
    ELSE 500

\* C24: a request whose store call threw is answered with the status of the
\* error's kind: 409 for P2002, 404 for P2025, 400 for a store validation
\* or foreign-key error, 500 for every other error; never a 2xx status.
C24_ErrorTranslation ==
    (req.handler \in {"Solution2_GET", "Solution2_POST"} /\ IsThrown(req.fault))
    => /\ resp.status = TranslatedStatus(req.fault)
       /\ resp.status \in ErrorStatuses

\* a create has met a uniqueness failure of the store
C24_Witness ==
    /\ req.handler = "Solution2_POST"
    /\ IsThrown(req.fault)
    /\ req.fault.code = "P2002"
    /\ resp.status = 409

\* C30: however often the module has been evaluated, under either NODE_ENV,
\* one client has been constructed and every evaluation has exported it.
C30_EvaluationsShareOneClient ==
    (\E h \in Routes : gw.handle[h] # NoClient)
    => /\ gw.clients = 1
       /\ \A h1, h2 \in Routes :
            (gw.handle[h1] # NoClient /\ gw.handle[h2] # NoClient)
            => gw.handle[h1] = gw.handle[h2]

====
